---- MODULE Spec2Model ----
(***************************************************************************)
(* Profile lifecycle reconciliation of nodrive_gpm_package:                *)
(*   - ProfileMonitor.check_all_profiles_status (services/profile_monitor) *)
(*   - GPMService.launch_browser and its helpers (services/gpm_service)    *)
(*   - GPMApiClient._make_request, create/list/close (api/gpm_client)      *)
(* Specifications: Spec (launches one at a time), SpecConcurrent (two      *)
(* callers on one event loop), SpecRelaunch (a relaunch over a leftover    *)
(* process, with fairness), SpecMonitor, SpecGeometry and SpecRegistry     *)
(* (the status check, the window position and the registry client as pure  *)
(* functions of their inputs), SpecPool (the status check with its worker  *)
(* threads interleaved).                                                   *)
(* Strings are sequences of one-character strings so that lower(),         *)
(* replace() and the substring test "in" are computed, not assumed.        *)
(***************************************************************************)
EXTENDS Integers, Sequences, FiniteSets, TLC

VARIABLES
    os,        \* the OS/filesystem state the monitor observes
    snapshot,  \* outcome of the last check_all_profiles_status call
    launch,    \* per caller: the locals of its launch_browser coroutine
    loop,      \* caller holding the event loop (0: every coroutine is suspended)
    exists,    \* registry: a profile record with the launched name exists
    live,      \* number of live remote browser processes of that profile
    launches,  \* launch_browser calls issued so far
    startTotal,\* start_profile requests issued so far, over all launches
    reusable,  \* history: every snapshot so far said running, every reuse worked
    starters,  \* history: callers that issued a start since the last close call
    works,     \* environment: registry, connector and status signal are reliable
    reg,       \* registry client on its own: the responses and the call's outcome
    pool       \* the worker pool of a status check that is under way

vars == <<os, snapshot, launch, loop, exists, live, launches, startTotal, reusable,
          starters, works, reg, pool>>

(***************************************************************************)
(* Strings                                                                 *)
(***************************************************************************)
\* str.lower() on the characters the model uses
LowerChar(ch) ==
    CASE ch = "A" -> "a"
      [] ch = "B" -> "b"
      [] ch = "C" -> "c"
      [] ch = "R" -> "r"
      [] OTHER -> ch

Lower(s) == [i \in DOMAIN s |-> LowerChar(s[i])]

\* str.replace("\\", "/")
ReplaceBackslash(s) == [i \in DOMAIN s |-> IF s[i] = "\\" THEN "/" ELSE s[i]]

\* Python's  sub in s
Contains(sub, s) ==
    \E i \in 0..(Len(s) - Len(sub)) : SubSeq(s, i + 1, i + Len(sub)) = sub

\* os.path.join(profiles_dir, profile) on Windows
PathJoin(root, name) == root \o <<"\\">> \o name

\* the normalisation of profile_monitor.py:125 and :185
Normalize(s) == ReplaceBackslash(Lower(s))

(***************************************************************************)
(* Configuration (config.py)                                               *)
(***************************************************************************)
cpu_threshold == 2
max_browsers_per_line == 4
browser_width == 1000
browser_height == 700
profiles_dir == <<"R">>
retry_delay == 5

(***************************************************************************)
(* The OS state the monitor reads                                          *)
(***************************************************************************)
NumPids == 2
Pids == 1..NumPids

\* psutil's ad_value (None) for an attribute it could not read
NoCpu == -1
\* p.cpu_percent(interval) raising NoSuchProcess / AccessDenied
Gone == -2

ProfA  == <<"a">>
ProfAb == <<"A", "b">>
ProfB  == <<"b">>

ChromeExe == <<"C", "h", "r", "o", "m", "e">>
OtherExe  == <<"g", "p", "m">>

CmdA  == <<"R", "\\", "a">>
CmdAb == <<"-", "R", "\\", "A", "b">>
CmdB  == <<"R", "/", "b">>

\* (cpu_percent at enumeration, outcome of the later cpu_percent(interval))
CpuPairs == { <<0, 0>>, <<0, cpu_threshold>>, <<0, cpu_threshold + 1>>,
              <<cpu_threshold + 1, 0>>, <<NoCpu, 0>>, <<NoCpu, Gone>>,
              <<cpu_threshold + 1, Gone>> }

\* one entry of psutil.process_iter(["pid","name","cmdline","cpu_percent"]);
\* name = <<>> stands for a name psutil could not read (None), cmdline = <<>>
\* for a command line it could not read (None or [])
Absent == [present |-> FALSE, name |-> <<>>, cmdline |-> <<>>,
           cpu_percent |-> NoCpu, cpu_next |-> Gone]

ProcInfos ==
    { [present |-> TRUE, name |-> ChromeExe, cmdline |-> CmdA,
       cpu_percent |-> cp[1], cpu_next |-> cp[2]] : cp \in CpuPairs }
    \cup { [present |-> TRUE, name |-> ChromeExe, cmdline |-> CmdAb,
            cpu_percent |-> cp[1], cpu_next |-> cp[2]] :
               cp \in { <<0, 0>>, <<0, cpu_threshold + 1>> } }
    \cup { [present |-> TRUE, name |-> ChromeExe, cmdline |-> CmdB,
            cpu_percent |-> cp[1], cpu_next |-> cp[2]] :
               cp \in { <<0, 0>>, <<0, cpu_threshold + 1>>, <<NoCpu, 0>>,
                        <<cpu_threshold + 1, Gone>> } }
    \cup { [present |-> TRUE, name |-> OtherExe, cmdline |-> CmdA,
            cpu_percent |-> 0, cpu_next |-> cpu_threshold + 1],
           [present |-> TRUE, name |-> ChromeExe, cmdline |-> <<>>,
            cpu_percent |-> 0, cpu_next |-> cpu_threshold + 1],
           [present |-> TRUE, name |-> <<>>, cmdline |-> CmdA,
            cpu_percent |-> 0, cpu_next |-> cpu_threshold + 1],
           Absent }

\* the window GetForegroundWindow() names, as EnumWindows reports it
NoWindow == [pid |-> 0, visible |-> FALSE, titled |-> FALSE]

Windows ==
    { [pid |-> p, visible |-> TRUE, titled |-> TRUE] : p \in Pids }
    \cup { [pid |-> 1, visible |-> FALSE, titled |-> TRUE],
           [pid |-> 1, visible |-> TRUE, titled |-> FALSE],
           NoWindow }

DirSets == { {}, {ProfA, ProfAb, ProfB} }

\* os.path.exists(profiles_dir) is false: nothing below it can be listed
NoRoot == [root_exists |-> FALSE, dirs |-> {}, proc |-> [p \in Pids |-> Absent],
           fg |-> NoWindow]

OsStates ==
    [root_exists : {TRUE}, dirs : DirSets, proc : [Pids -> ProcInfos], fg : Windows]
    \cup {NoRoot}

(***************************************************************************)
(* ProfileMonitor (services/profile_monitor.py)                            *)
(***************************************************************************)
\* the result of a call: the three lists, or the exception that ended it
ProfileStatusResult(stopped, running, pending) ==
    [outcome |-> "returned", stopped |-> stopped, running |-> running,
     pending |-> pending]

Raised == [outcome |-> "raised", stopped |-> {}, running |-> {}, pending |-> {}]

\* no call made yet
NoResult == [outcome |-> "none", stopped |-> {}, running |-> {}, pending |-> {}]

\* ProfileMonitor._get_chrome_processes: the pids kept, in process_iter order
IsChrome(info) ==
    /\ info.present
    /\ info.name # <<>>
    /\ Contains(Lower(ChromeExe), Lower(info.name))

_get_chrome_processes(o) ==
    SelectSeq([i \in 1..NumPids |-> i], LAMBDA p : IsChrome(o.proc[p]))

\* the "cmdline" entry built at profile_monitor.py:183-186
CmdlineStr(o, p) == Normalize(o.proc[p].cmdline)

\* ProfileMonitor._get_active_window_pids
_get_active_window_pids(o) ==
    IF o.fg.pid # 0 /\ o.fg.visible /\ o.fg.titled THEN {o.fg.pid} ELSE {}

\* profile_monitor.py:143
Matches(profile, cmdline) ==
    \/ Contains(Normalize(PathJoin(profiles_dir, profile)), cmdline)
    \/ Contains(Lower(profile), cmdline)

\* profile_to_processes[profile], profile_monitor.py:139-144
ProfileProcesses(o, profile) ==
    SelectSeq(_get_chrome_processes(o), LAMBDA p : Matches(profile, CmdlineStr(o, p)))

\* the test with values equal to the threshold counted as activity
CpuActiveAtThreshold(cpu_initial, cpu_current) ==
    LET d == cpu_current - cpu_initial
        absd == IF d < 0 THEN -d ELSE d
    IN  \/ absd >= cpu_threshold
        \/ cpu_initial >= cpu_threshold
        \/ cpu_current >= cpu_threshold

\* the test of profile_monitor.py:247-251
CpuActive(cpu_initial, cpu_current) ==
    LET d == cpu_current - cpu_initial
        absd == IF d < 0 THEN -d ELSE d
    IN  \/ absd > cpu_threshold
        \/ cpu_initial > cpu_threshold
        \/ cpu_current > cpu_threshold

\* the loop of profile_monitor.py:241-255 from position i of the list:
\* "changed", "unchanged", or "TypeError" (None - float is not caught there)
RECURSIVE CpuLoop(_, _, _)
CpuLoop(o, procs, i) ==
    IF i > Len(procs) THEN "unchanged"
    ELSE LET info == o.proc[procs[i]] IN
         IF info.cpu_next = Gone THEN CpuLoop(o, procs, i + 1)
         ELSE IF info.cpu_percent = NoCpu THEN "TypeError"
         ELSE IF CpuActive(info.cpu_percent, info.cpu_next) THEN "changed"
         ELSE CpuLoop(o, procs, i + 1)

\* _check_profile_status without the early return of profile_monitor.py:233
check_profile_status_no_early_return(o, profile, processes, active_pids) ==
    LET is_active_window ==
            \E i \in 1..Len(processes) : processes[i] \in active_pids
        cpu == CpuLoop(o, processes, 1)
    IN  IF cpu = "TypeError"
        THEN [is_running |-> TRUE, status |-> "TypeError"]
        ELSE [is_running |-> TRUE,
              status |-> IF cpu = "changed" \/ is_active_window
                         THEN "running" ELSE "pending"]

\* ProfileMonitor._check_profile_status: the status_info of one profile
_check_profile_status(o, profile, processes, active_pids) ==
    IF Len(processes) = 0
    THEN [is_running |-> FALSE, status |-> "stopped"]
    ELSE LET is_active_window ==
                 \E i \in 1..Len(processes) : processes[i] \in active_pids
             cpu == CpuLoop(o, processes, 1)
         IN  IF cpu = "TypeError"
             THEN [is_running |-> TRUE, status |-> "TypeError"]
             ELSE [is_running |-> TRUE,
                   status |-> IF cpu = "changed" \/ is_active_window
                              THEN "running" ELSE "pending"]

\* the transform of profile_monitor.py:166-172 without its last elif
BucketNoPending(status_info) ==
    IF ~status_info.is_running \/ status_info.status = "stopped" THEN "stopped"
    ELSE IF status_info.status = "running" THEN "running"
    ELSE "none"

\* the bucket chosen at profile_monitor.py:166-172
Bucket(status_info) ==
    IF ~status_info.is_running \/ status_info.status = "stopped" THEN "stopped"
    ELSE IF status_info.status = "running" THEN "running"
    ELSE IF status_info.status = "pending" THEN "pending"
    ELSE "none"

\* ProfileMonitor.check_all_profiles_status
check_all_profiles_status(o) ==
    IF ~o.root_exists THEN ProfileStatusResult({}, {}, {})
    ELSE LET profiles == o.dirs
             chrome_processes == _get_chrome_processes(o)
         IN
         IF profiles = {} THEN ProfileStatusResult(profiles, {}, {})
         ELSE IF Len(chrome_processes) = 0 THEN ProfileStatusResult(profiles, {}, {})
         ELSE LET active_pids == _get_active_window_pids(o)
                  result == [profile \in profiles |->
                                _check_profile_status(o, profile,
                                    ProfileProcesses(o, profile), active_pids)]
              IN  IF \E profile \in profiles : result[profile].status = "TypeError"
                  THEN Raised
                  ELSE ProfileStatusResult(
                         {profile \in profiles : Bucket(result[profile]) = "stopped"},
                         {profile \in profiles : Bucket(result[profile]) = "running"},
                         {profile \in profiles : Bucket(result[profile]) = "pending"})

\* ProfileStatusResult.is_running / is_pending
is_running(res, key) == key \in res.running
is_pending(res, key) == key \in res.pending

\* ProfileStatusResult.get_status
get_status(res, profile_name) ==
    IF profile_name \in res.running THEN "running"
    ELSE IF profile_name \in res.pending THEN "pending"
    ELSE IF profile_name \in res.stopped THEN "stopped"
    ELSE "unknown"

(***************************************************************************)
(* The worker pool of check_all_profiles_status, profile_monitor.py:147-162 *)
(***************************************************************************)
\* the order in which os.listdir returned the directories: the order in
\* which the futures are submitted and their results collected
ProfileOrder(o) == SelectSeq(<<ProfA, ProfAb, ProfB>>, LAMBDA d : d \in o.dirs)

\* no status check under way
NoPool == [phase |-> "none", active_pids |-> {}, worker |-> <<>>, collected |-> 0,
           finished |-> <<>>]

\* a submitted _check_profile_status call: its arguments, the position of
\* its CPU loop, its local cpu_changed and the status it returned
Worker(profile, processes) ==
    [profile |-> profile, processes |-> processes, i |-> 1, cpu_changed |-> FALSE,
     status |-> "busy"]

\* the worker with cpu_changed kept in one attribute all workers write
worker_step_shared_flag(workers, k, o, active_pids) ==
    LET w == workers[k]
        is_active_window ==
            \E j \in 1..Len(w.processes) : w.processes[j] \in active_pids
        shared == \E j \in 1..Len(workers) : workers[j].cpu_changed
        finish(changed) ==
            [w EXCEPT !.cpu_changed = changed \/ shared,
                      !.status = IF changed \/ shared \/ is_active_window
                                 THEN "running" ELSE "pending"]
    IN  IF Len(w.processes) = 0 THEN [w EXCEPT !.status = "stopped"]
        ELSE LET info == o.proc[w.processes[w.i]]
                 last == w.i = Len(w.processes)
             IN  IF info.cpu_next = Gone
                 THEN IF last THEN finish(FALSE) ELSE [w EXCEPT !.i = @ + 1]
                 ELSE IF info.cpu_percent = NoCpu THEN [w EXCEPT !.status = "TypeError"]
                 ELSE IF CpuActive(info.cpu_percent, info.cpu_next) THEN finish(TRUE)
                 ELSE IF last THEN finish(FALSE) ELSE [w EXCEPT !.i = @ + 1]

\* one step of worker k's _check_profile_status, profile_monitor.py:232-260:
\* the early return, or one blocking cpu_percent(interval) sample and what
\* follows it up to the next sample or the return
worker_step(workers, k, o, active_pids) ==
    LET w == workers[k]
        is_active_window ==
            \E j \in 1..Len(w.processes) : w.processes[j] \in active_pids
        finish(changed) ==
            [w EXCEPT !.cpu_changed = changed,
                      !.status = IF changed \/ is_active_window
                                 THEN "running" ELSE "pending"]
    IN  IF Len(w.processes) = 0 THEN [w EXCEPT !.status = "stopped"]
        ELSE LET info == o.proc[w.processes[w.i]]
                 last == w.i = Len(w.processes)
             IN  IF info.cpu_next = Gone
                 THEN IF last THEN finish(FALSE) ELSE [w EXCEPT !.i = @ + 1]
                 ELSE IF info.cpu_percent = NoCpu THEN [w EXCEPT !.status = "TypeError"]
                 ELSE IF CpuActive(info.cpu_percent, info.cpu_next) THEN finish(TRUE)
                 ELSE IF last THEN finish(FALSE) ELSE [w EXCEPT !.i = @ + 1]

\* the status_info a finished worker returned
status_info(w) == [is_running |-> w.status # "stopped", status |-> w.status]

(***************************************************************************)
(* GPMService.launch_browser (services/gpm_service.py)                     *)
(***************************************************************************)
(* The registry client: GPMApiClient._make_request and its callers         *)
(***************************************************************************)
\* profile names in registry payloads: the one asked for and another one
AskedName == "p"
OtherName == "q"
Names == {AskedName, OtherName}

\* the parsed body of a response: invalid JSON, a JSON array, or a JSON object
\* with or without a "data" key; data is null, a list of profile objects, one
\* profile object or a scalar; names are the "name" fields of the profile
\* objects (of the object itself when there is no "data" key); valid says
\* whether they carry the required fields of ProfileResponse
Body(json, has_data, data, names, valid) ==
    [json |-> json, has_data |-> has_data, data |-> data, names |-> names,
     valid |-> valid]

NoBody == Body("invalid", FALSE, "null", {}, FALSE)

Bodies ==
    { NoBody,
      Body("array", FALSE, "null", {}, FALSE),
      Body("object", FALSE, "null", {}, FALSE),
      Body("object", FALSE, "null", {AskedName}, TRUE),
      Body("object", TRUE, "null", {}, FALSE),
      Body("object", TRUE, "scalar", {}, FALSE),
      Body("object", TRUE, "dict", {AskedName}, TRUE),
      Body("object", TRUE, "dict", {}, FALSE),
      Body("object", TRUE, "list", {AskedName}, FALSE) }
    \cup { Body("object", TRUE, "list", ns, TRUE) : ns \in SUBSET Names }

\* what session.request() does: it raises Timeout, raises another
\* RequestException (connection refused), or answers with a status and a body
Responses ==
    { [net |-> "timeout", status |-> 0, body |-> NoBody],
      [net |-> "refused", status |-> 0, body |-> NoBody] }
    \cup { [net |-> "answered", status |-> 500, body |-> Body("object", TRUE, "null", {}, FALSE)] }
    \cup { [net |-> "answered", status |-> 200, body |-> b] : b \in Bodies }

\* a Python outcome: the exception raised ("none": the call returned) and the
\* value returned
Raise(exc) == [exc |-> exc, kind |-> "none", names |-> {}, valid |-> FALSE, flag |-> FALSE]
Return(kind, names, valid, flag) ==
    [exc |-> "none", kind |-> kind, names |-> names, valid |-> valid, flag |-> flag]

\* _make_request without the test of line 102
make_request_no_none_check(resp) ==
    IF resp.net # "answered" \/ resp.status >= 400 \/ resp.body.json # "object"
    THEN Raise("GPMApiException")
    ELSE IF resp.body.has_data
         THEN Return(resp.body.data, resp.body.names, resp.body.valid, FALSE)
         ELSE Return("envelope", resp.body.names, resp.body.valid, FALSE)

\* GPMApiClient._make_request, gpm_client.py:77-122
_make_request(resp) ==
    IF resp.net = "timeout" THEN Raise("GPMApiException")           \* line 110
    ELSE IF resp.net = "refused" THEN Raise("GPMApiException")      \* line 115
    ELSE IF resp.status >= 400 THEN Raise("GPMApiException")        \* line 89, 115
    ELSE IF resp.body.json = "invalid" THEN Raise("GPMApiException")  \* line 92
    ELSE IF resp.body.json = "array" THEN Raise("GPMApiException")  \* line 99, 121
    ELSE LET data == IF resp.body.has_data                          \* line 99
                     THEN Return(resp.body.data, resp.body.names, resp.body.valid, FALSE)
                     ELSE Return("envelope", resp.body.names, resp.body.valid, FALSE)
         IN  IF data.kind = "null" THEN Raise("GPMApiException")    \* line 102, 121
             ELSE data

\* ProfileResponse(**data): the record, or pydantic's ValidationError, or the
\* TypeError of ** applied to something that is no mapping
ProfileResponse(data) ==
    IF data.kind \in {"dict", "envelope"}
    THEN IF data.valid THEN Return("record", data.names, TRUE, FALSE)
         ELSE Raise("ValidationError")
    ELSE Raise("TypeError")

\* GPMApiClient.create_profile, gpm_client.py:126-141
create_profile(resp) ==
    LET data == _make_request(resp)
    IN  IF data.exc # "none" THEN data ELSE ProfileResponse(data)

\* GPMApiClient.get_profiles, gpm_client.py:143-154
get_profiles(resp) ==
    LET data == _make_request(resp)
    IN  IF data.exc # "none" THEN data
        ELSE IF data.kind = "list"
        THEN IF data.valid THEN Return("records", data.names, TRUE, FALSE)
             ELSE Raise("ValidationError")
        ELSE Return("records", {}, TRUE, FALSE)

\* GPMApiClient.get_profile_by_name, gpm_client.py:172-188: the record of
\* that name, or None
get_profile_by_name(profile_name, resp) ==
    LET profiles == get_profiles(resp)
    IN  IF profiles.exc # "none" THEN profiles
        ELSE IF profile_name \in profiles.names
        THEN Return("record", {profile_name}, TRUE, FALSE)
        ELSE Return("None", {}, FALSE, FALSE)

\* GPMApiClient.close_profile, gpm_client.py:284-298
close_profile(resp) ==
    IF _make_request(resp).exc = "GPMApiException"
    THEN Return("bool", {}, FALSE, FALSE)
    ELSE Return("bool", {}, FALSE, TRUE)

\* GPMApiClient.close_profile_by_name (gpm_client.py:300-314), which
\* GPMService.close_profile and GPMClient.close hand through unchanged
close_by_name(profile_name, list_resp, close_resp) ==
    LET profile == get_profile_by_name(profile_name, list_resp)
    IN  IF profile.exc # "none" THEN profile
        ELSE IF profile.kind = "None" THEN Return("bool", {}, FALSE, FALSE)
        ELSE close_profile(close_resp)

\* the registry client is not exercised on its own
NoReg == [phase |-> "none", op |-> "none", list_resp |-> [net |-> "timeout", status |-> 0, body |-> NoBody],
          resp |-> [net |-> "timeout", status |-> 0, body |-> NoBody],
          out |-> Raise("none")]

(***************************************************************************)
MaxRetries == 2
MaxLaunches == 2
MaxLive == 2

\* config.max_retries of the GPMConfig the service was built with (config.py:84-87,
\* default 3): the largest retry budget the model explores
config_max_retries == MaxRetries

Callers == {1, 2}

\* a window coordinate the caller did not pass (None)
NoCoord == -1

NoRequest == [max_retries |-> 0, persistent_position |-> 0,
              window_x |-> NoCoord, window_y |-> NoCoord,
              window_width |-> 0, window_height |-> 0]

\* BrowserLaunchRequest as built at gpm_service.py:98-109; max_retries = 0
\* stands for an argument of None or 0, which "or" replaces by the config's
BrowserLaunchRequest(max_retries, persistent_position, window_x, window_y) ==
    [max_retries |-> IF max_retries = 0 THEN config_max_retries ELSE max_retries,
     persistent_position |-> persistent_position,
     window_x |-> window_x, window_y |-> window_y,
     window_width |-> browser_width, window_height |-> browser_height]

\* (persistent_position, window_x, window_y) of the calls the model makes
Placements == { <<0, NoCoord, NoCoord>>, <<5, 7, NoCoord>> }

\* the window position with columns counted from 1
WindowPosOneBased(request) ==
    IF request.window_x # NoCoord /\ request.window_y # NoCoord
    THEN <<request.window_x, request.window_y>>
    ELSE LET row == request.persistent_position \div max_browsers_per_line
             col == request.persistent_position % max_browsers_per_line
         IN  <<(col + 1) * request.window_width, row * request.window_height>>

\* the window position with the row taken modulo the line length as well
WindowPosRowModulo(request) ==
    IF request.window_x # NoCoord /\ request.window_y # NoCoord
    THEN <<request.window_x, request.window_y>>
    ELSE LET row == request.persistent_position % max_browsers_per_line
             col == request.persistent_position % max_browsers_per_line
         IN  <<col * request.window_width, row * request.window_height>>

\* the window position of gpm_service.py:279-288
WindowPos(request) ==
    IF request.window_x # NoCoord /\ request.window_y # NoCoord
    THEN <<request.window_x, request.window_y>>
    ELSE LET row == request.persistent_position \div max_browsers_per_line
             col == request.persistent_position % max_browsers_per_line
         IN  <<col * request.window_width, row * request.window_height>>

\* the nodriver Browser object: connected by nd.start, verified by
\* browser.get(), stopped by browser.stop()
NoBrowser == [connected |-> FALSE, verified |-> FALSE, stopped |-> FALSE]

\* the locals of a launch_browser call that has not been made
IdleLaunch ==
    [pc |-> "idle", request |-> NoRequest, attempt |-> 0, attempts |-> 0,
     profile_path |-> <<>>, is_running |-> FALSE, is_pending |-> FALSE,
     browser |-> NoBrowser, result |-> "none",
     lookups |-> 0, creates |-> 0, starts |-> 0, closes |-> 0, backoffs |-> 0,
     att_closes |-> 0, att_started |-> FALSE, start_closes |-> 0,
     start_pos |-> <<NoCoord, NoCoord>>,
     first_pending |-> FALSE, first_running |-> FALSE, recheck_running |-> FALSE,
     fresh |-> FALSE, flap |-> FALSE, reg_ok |-> FALSE,
     wait_time |-> 0, reuse_failed |-> FALSE, leftover |-> FALSE,
     profile_name |-> <<>>, status |-> "none", spawned |-> FALSE]

\* the directory of the launched profile under the root; in the launch
\* specifications the registry's record carries this name as profile_path,
\* the key of gpm_service.py:204
LaunchedPath == ProfA

\* what the status check of a launch may find on the machine
LaunchOs ==
    LET one(info, fg) == [root_exists |-> TRUE, dirs |-> {ProfA, ProfB},
                          proc |-> [p \in Pids |-> IF p = 1 THEN info ELSE Absent],
                          fg |-> fg]
        chrome(cp) == [present |-> TRUE, name |-> ChromeExe, cmdline |-> CmdA,
                       cpu_percent |-> cp[1], cpu_next |-> cp[2]]
    IN  { NoRoot,
          one(Absent, NoWindow),
          one(chrome(<<0, 0>>), NoWindow),
          one(chrome(<<0, cpu_threshold + 1>>), NoWindow),
          one(chrome(<<0, 0>>), [pid |-> 1, visible |-> TRUE, titled |-> TRUE]),
          one(chrome(<<NoCpu, 0>>), NoWindow) }

\* each of these OS states with what check_all_profiles_status returns for
\* it and whether a process of the launched profile is among its processes
LaunchChecks ==
    { [o |-> o, res |-> check_all_profiles_status(o),
       seen |-> ProfileProcesses(o, LaunchedPath) # <<>>] : o \in LaunchOs }

\* the status signal reflects the OS: the check returns, and it sees a
\* process of the launched profile exactly when one is live
Reflects(chk) ==
    /\ chk.o.root_exists
    /\ chk.res.outcome = "returned"
    /\ chk.seen <=> (live > 0)

Init ==
    /\ os = NoRoot
    /\ snapshot = NoResult
    /\ launch = [c \in Callers |-> IdleLaunch]
    /\ loop = 0
    /\ exists \in BOOLEAN
    /\ live \in {0, 1}
    /\ exists \/ live = 0
    /\ launches = 0
    /\ startTotal = 0
    /\ reusable = TRUE
    /\ starters = {}
    /\ works = FALSE
    /\ reg = NoReg
    /\ pool = NoPool

\* a single-flight lock: c runs only while no other call is under way
CanRunExclusive(c) ==
    /\ loop \in {0, c}
    /\ \A d \in Callers \ {c} : launch[d].pc \in {"idle", "done", "raised"}

\* a coroutine runs from one await to the next without interleaving:
\* c may take a step when it holds the event loop or nobody does
CanRun(c) == loop \in {0, c}

\* the handler giving up at the first exception
launch_except_no_retry(l) == [l EXCEPT !.pc = "done", !.result = "None"]

\* the handler letting the last attempt's exception out to the caller
launch_except_reraise_last(l) ==
    IF l.attempt < l.request.max_retries - 1
    THEN [l EXCEPT !.pc = "backoff", !.backoffs = @ + 1,
                   !.wait_time = retry_delay * (l.attempt + 1)]
    ELSE [l EXCEPT !.pc = "raised", !.result = "exception"]

\* launch_browser's "except Exception" handler, gpm_service.py:137-146
launch_except(l) ==
    IF l.attempt < l.request.max_retries - 1
    THEN [l EXCEPT !.pc = "backoff", !.backoffs = @ + 1,
                   !.wait_time = retry_delay * (l.attempt + 1)]
    ELSE [l EXCEPT !.pc = "done", !.result = "None"]

\* _handle_profile_status returned None without raising: gpm_service.py:131-135
\* falls to the next iteration of the for loop, or to the return of line 148
loop_continue(l) ==
    IF l.attempt + 1 < l.request.max_retries
    THEN [l EXCEPT !.pc = "attempt", !.attempt = @ + 1]
    ELSE [l EXCEPT !.pc = "done", !.result = "None"]

\* the branch on is_running with the reuse path missing
status_branch_always_start(running) == "start"

\* the branch on is_running with line 263 also taken for a running profile
status_branch_always_discover(running) == "discover"

\* the branch of gpm_service.py:226 / :263 on is_running
status_branch(running) == IF running THEN "discover" ELSE "start"

\* the first snapshot's branch with the pending test of line 215 missing
first_branch_skip_pending(pending, running) == status_branch(running)

\* the branch after the first snapshot: gpm_service.py:215, then :226 / :263
first_branch(pending, running) ==
    IF pending THEN "close_pending" ELSE status_branch(running)

\* browser.get() returned: the handle goes to the caller, gpm_service.py:315-317
verify_passed(l) ==
    [l EXCEPT !.browser.verified = TRUE, !.result = "browser", !.pc = "done"]

\* the failed liveness check handing the handle to the caller all the same
verify_failed_return_handle(l) == [l EXCEPT !.result = "browser", !.pc = "done"]

\* browser.get() raised: the except clause of gpm_service.py:318-321 goes on to
\* browser.stop()
verify_failed(l) == [l EXCEPT !.pc = "stop", !.fresh = FALSE]

\* the pcs at which the coroutine is suspended in an await (or not running)
AwaitPcs == {"idle", "done", "raised", "created_sleep", "pending_sleep", "connect_reuse",
             "restart_sleep", "settle_sleep", "connect_new", "verify", "stop",
             "backoff"}

\* the first status check of _handle_profile_status and the branch on it,
\* gpm_service.py:204-215, on the locals l for the monitor's result res
first_check(l, res) ==
    LET r == is_running(res, l.profile_path)
        pd == is_pending(res, l.profile_path)
    IN  IF res.outcome = "raised"
        THEN launch_except([l EXCEPT !.fresh = FALSE, !.flap = FALSE])
        ELSE [l EXCEPT !.is_running = r, !.is_pending = pd,
                       !.first_pending = pd, !.first_running = r,
                       !.pc = first_branch(pd, r),
                       !.fresh = @ /\ ~r /\ ~pd,
                       !.flap = @ /\ pd]

\* the recheck branching on what the first snapshot said
recheck_first_snapshot(l, res) ==
    IF res.outcome = "raised"
    THEN launch_except(l)
    ELSE [l EXCEPT !.recheck_running = is_running(res, l.profile_path),
                   !.pc = status_branch(l.is_running),
                   !.flap = @ /\ is_pending(res, l.profile_path),
                   !.wait_time = 0]

\* the second status check of the pending branch and the branch on it,
\* gpm_service.py:220-226 and :263
recheck(l, res) ==
    LET r == is_running(res, l.profile_path)
        pd == is_pending(res, l.profile_path)
    IN  IF res.outcome = "raised"
        THEN launch_except(l)
        ELSE [l EXCEPT !.is_running = r, !.is_pending = pd,
                       !.recheck_running = r,
                       !.pc = status_branch(r),
                       !.flap = @ /\ pd,
                       !.wait_time = 0]

\* caller c's coroutine moves to the locals l2
Step(c, l2) ==
    /\ launch' = [launch EXCEPT ![c] = l2]
    /\ loop' = IF l2.pc \in AwaitPcs THEN 0 ELSE c

\* GPMApiClient.close_profile_by_name (gpm_client.py:300-314): the listing
\* raises ("raise"), no record has the name ("absent": False), or the close
\* request is sent and succeeds ("closed": True) or fails ("failed": False)
CloseOutcomes == {"raise", "absent", "closed", "failed"}

close_profile_by_name(out) ==
    /\ out = "absent" => ~exists
    /\ out \in {"closed", "failed"} => exists
    /\ works => out \in {"absent", "closed"}
    /\ live' = IF out = "closed" THEN 0 ELSE live
    /\ starters' = {}

\* the bookkeeping of one close_profile_by_name call in the locals
Closed(l, out) ==
    [l EXCEPT !.closes = @ + 1, !.att_closes = @ + 1,
              !.reg_ok = @ \/ out # "raise",
              !.spawned = @ /\ out # "closed"]

\* launch_browser is called: gpm_service.py:98-111
LaunchCall(c, max_retries, placement) ==
    /\ launch[c].pc \in {"idle", "done", "raised"}
    /\ CanRun(c)
    /\ launches < MaxLaunches
    /\ launches' = launches + 1
    /\ Step(c, [IdleLaunch EXCEPT
                  !.pc = "attempt",
                  !.request = BrowserLaunchRequest(max_retries, placement[1],
                                                   placement[2], placement[3]),
                  !.fresh = TRUE, !.flap = TRUE,
                  !.leftover = (works /\ live = 1)])
    /\ UNCHANGED <<os, snapshot, exists, live, startTotal, reusable, starters, works, reg, pool>>

\* one iteration of the for loop starts: _ensure_profile_exists,
\* gpm_service.py:116-123 and :150-194, with get_profile_by_name
EnsureProfile(c) ==
    /\ launch[c].pc = "attempt"
    /\ CanRun(c)
    /\ LET l == [launch[c] EXCEPT !.attempts = @ + 1, !.lookups = @ + 1,
                                  !.att_closes = 0, !.att_started = FALSE,
                                  !.start_closes = 0, !.first_pending = FALSE,
                                  !.first_running = FALSE,
                                  !.recheck_running = FALSE, !.browser = NoBrowser,
                                  !.wait_time = 0, !.reuse_failed = FALSE]
       IN  \/ \* get_profiles raises: out of _ensure_profile_exists, to the handler
              /\ ~works
              /\ Step(c, launch_except([l EXCEPT !.fresh = FALSE, !.flap = FALSE]))
              /\ UNCHANGED exists
           \/ \* the profile is found
              /\ exists
              /\ Step(c, [l EXCEPT !.pc = "status", !.profile_path = LaunchedPath,
                                   !.reg_ok = TRUE, !.fresh = FALSE])
              /\ UNCHANGED exists
           \/ \* not found, create_profile succeeds, then sleep(connection_wait_time)
              /\ ~exists
              /\ exists' = TRUE
              /\ Step(c, [l EXCEPT !.pc = "created_sleep", !.creates = @ + 1,
                                   !.profile_path = LaunchedPath, !.reg_ok = TRUE])
           \/ \* not found, create_profile raises GPMApiException: None, line 123
              /\ ~exists
              /\ ~works
              /\ Step(c, launch_except([l EXCEPT !.creates = @ + 1, !.reg_ok = TRUE,
                                                 !.fresh = FALSE, !.flap = FALSE]))
              /\ UNCHANGED exists
    /\ UNCHANGED <<os, snapshot, live, launches, startTotal, reusable, starters, works, reg, pool>>

\* the sleep of gpm_service.py:190 ends
CreatedWake(c) ==
    /\ launch[c].pc = "created_sleep"
    /\ CanRun(c)
    /\ Step(c, [launch[c] EXCEPT !.pc = "status"])
    /\ UNCHANGED <<os, snapshot, exists, live, launches, startTotal, reusable, starters, works, reg, pool>>

\* the first status check of _handle_profile_status: gpm_service.py:207-215
CheckStatus(c) ==
    /\ launch[c].pc = "status"
    /\ CanRun(c)
    /\ \E chk \in LaunchChecks :
         /\ works => Reflects(chk)
         /\ Step(c, first_check(launch[c], chk.res))
         /\ reusable' = /\ reusable
                         /\ chk.res.outcome = "returned"
                         /\ is_running(chk.res, launch[c].profile_path)
    /\ UNCHANGED <<os, snapshot, exists, live, launches, startTotal, starters, works, reg, pool>>

\* the pending branch closes the profile and sleeps retry_delay:
\* gpm_service.py:216-218
ClosePending(c) ==
    /\ launch[c].pc = "close_pending"
    /\ CanRun(c)
    /\ \E out \in CloseOutcomes :
         /\ close_profile_by_name(out)
         /\ Step(c, IF out = "raise"
                    THEN launch_except(Closed(launch[c], out))
                    ELSE [Closed(launch[c], out) EXCEPT !.pc = "pending_sleep",
                                                        !.wait_time = retry_delay])
    /\ UNCHANGED <<os, snapshot, exists, launches, startTotal, reusable, works, reg, pool>>

\* after the sleep, the recheck of gpm_service.py:220-226
Recheck(c) ==
    /\ launch[c].pc = "pending_sleep"
    /\ CanRun(c)
    /\ \E chk \in LaunchChecks :
         /\ works => Reflects(chk)
         /\ Step(c, recheck(launch[c], chk.res))
         /\ reusable' = /\ reusable
                         /\ chk.res.outcome = "returned"
                         /\ is_running(chk.res, launch[c].profile_path)
    /\ UNCHANGED <<os, snapshot, exists, live, launches, startTotal, starters, works, reg, pool>>

\* the running branch looks the endpoint up: gpm_service.py:229-245
Discover(c) ==
    /\ launch[c].pc = "discover"
    /\ CanRun(c)
    /\ \/ \* get_profiles raises: the except clause of line 256
          /\ ~works
          /\ Step(c, [launch[c] EXCEPT !.pc = "close_258"])
          /\ reusable' = FALSE
       \/ \* a record of that name has status "running", a host and a port
          /\ exists
          /\ Step(c, [launch[c] EXCEPT !.pc = "connect_reuse", !.reg_ok = TRUE])
          /\ UNCHANGED reusable
       \/ \* no such record, or no usable remote_debugging_address
          /\ ~works
          /\ Step(c, [launch[c] EXCEPT !.pc = "close_252", !.reg_ok = TRUE,
                                       !.reuse_failed = TRUE])
          /\ reusable' = FALSE
    /\ UNCHANGED <<os, snapshot, exists, live, launches, startTotal, starters, works, reg, pool>>

\* _connect_to_browser on the reuse path returns: gpm_service.py:245-248
ConnectReuse(c) ==
    /\ launch[c].pc = "connect_reuse"
    /\ CanRun(c)
    /\ \/ /\ Step(c, [launch[c] EXCEPT
                        !.browser = [NoBrowser EXCEPT !.connected = TRUE],
                        !.result = "browser", !.pc = "done"])
          /\ UNCHANGED reusable
       \/ /\ ~works
          /\ Step(c, [launch[c] EXCEPT !.pc = "close_252", !.reuse_failed = TRUE])
          /\ reusable' = FALSE
    /\ UNCHANGED <<os, snapshot, exists, live, launches, startTotal, starters, works, reg, pool>>

\* "Connection failed, close and restart": gpm_service.py:250-254
Close252(c) ==
    /\ launch[c].pc = "close_252"
    /\ CanRun(c)
    /\ \E out \in CloseOutcomes :
         /\ close_profile_by_name(out)
         /\ Step(c, IF out = "raise"
                    THEN [Closed(launch[c], out) EXCEPT !.pc = "close_258"]
                    ELSE [Closed(launch[c], out) EXCEPT !.pc = "restart_sleep",
                                                        !.is_running = FALSE])
    /\ UNCHANGED <<os, snapshot, exists, launches, startTotal, reusable, works, reg, pool>>

\* the except clause of the running branch: gpm_service.py:256-260
Close258(c) ==
    /\ launch[c].pc = "close_258"
    /\ CanRun(c)
    /\ \E out \in CloseOutcomes :
         /\ close_profile_by_name(out)
         /\ Step(c, IF out = "raise"
                    THEN launch_except(Closed(launch[c], out))
                    ELSE [Closed(launch[c], out) EXCEPT !.pc = "restart_sleep",
                                                        !.is_running = FALSE])
    /\ UNCHANGED <<os, snapshot, exists, launches, startTotal, reusable, works, reg, pool>>

\* the sleep of gpm_service.py:253 / :259 ends; line 263 is reached
RestartWake(c) ==
    /\ launch[c].pc = "restart_sleep"
    /\ CanRun(c)
    /\ Step(c, [launch[c] EXCEPT !.pc = "start"])
    /\ UNCHANGED <<os, snapshot, exists, live, launches, startTotal, reusable, starters, works, reg, pool>>

\* _start_new_profile up to the sleep of line 301: gpm_service.py:279-301
StartProfile(c) ==
    /\ launch[c].pc = "start"
    /\ CanRun(c)
    /\ startTotal' = startTotal + 1
    /\ starters' = starters \cup {c}
    /\ LET l == [launch[c] EXCEPT !.starts = @ + 1, !.att_started = TRUE,
                                  !.start_closes = launch[c].att_closes,
                                  !.start_pos = WindowPos(launch[c].request)]
       IN  \/ \* the registry starts the browser and answers
              /\ live < MaxLive
              /\ live' = live + 1
              /\ Step(c, [l EXCEPT !.pc = "settle_sleep", !.reg_ok = TRUE,
                                   !.spawned = TRUE])
           \/ \* the request fails: caught at line 323, None
              /\ ~works
              /\ UNCHANGED live
              /\ Step(c, loop_continue([l EXCEPT !.fresh = FALSE]))
           \/ \* the browser is started but the answer is lost (timeout)
              /\ ~works
              /\ live < MaxLive
              /\ live' = live + 1
              /\ Step(c, loop_continue([l EXCEPT !.fresh = FALSE, !.spawned = TRUE]))
    /\ UNCHANGED <<os, snapshot, exists, launches, reusable, works, reg, pool>>

\* the sleep of gpm_service.py:301 ends and nd.start is awaited
SettleWake(c) ==
    /\ launch[c].pc = "settle_sleep"
    /\ CanRun(c)
    /\ Step(c, [launch[c] EXCEPT !.pc = "connect_new"])
    /\ UNCHANGED <<os, snapshot, exists, live, launches, startTotal, reusable, starters, works, reg, pool>>

\* _connect_to_browser after a start returns: gpm_service.py:304-311
ConnectNew(c) ==
    /\ launch[c].pc = "connect_new"
    /\ CanRun(c)
    /\ \/ Step(c, [launch[c] EXCEPT
                     !.browser = [NoBrowser EXCEPT !.connected = TRUE],
                     !.pc = "verify"])
       \/ ~works /\ Step(c, loop_continue([launch[c] EXCEPT !.fresh = FALSE]))
    /\ UNCHANGED <<os, snapshot, exists, live, launches, startTotal, reusable, starters, works, reg, pool>>

\* browser.get() returns or raises: gpm_service.py:314-320
Verify(c) ==
    /\ launch[c].pc = "verify"
    /\ CanRun(c)
    /\ \/ Step(c, verify_passed(launch[c]))
       \/ ~works /\ Step(c, verify_failed(launch[c]))
    /\ UNCHANGED <<os, snapshot, exists, live, launches, startTotal, reusable, starters, works, reg, pool>>

\* browser.stop() returns or raises; either way line 323 catches and
\* _start_new_profile returns None: gpm_service.py:320-325
StopBrowser(c) ==
    /\ launch[c].pc = "stop"
    /\ CanRun(c)
    /\ \E stopped \in BOOLEAN :
         Step(c, loop_continue([launch[c] EXCEPT !.browser.stopped = stopped]))
    /\ UNCHANGED <<os, snapshot, exists, live, launches, startTotal, reusable, starters, works, reg, pool>>

\* the backoff sleep of gpm_service.py:143 ends: next iteration
BackoffWake(c) ==
    /\ launch[c].pc = "backoff"
    /\ CanRun(c)
    /\ Step(c, [launch[c] EXCEPT !.pc = "attempt", !.attempt = @ + 1])
    /\ UNCHANGED <<os, snapshot, exists, live, launches, startTotal, reusable, starters, works, reg, pool>>

\* the steps of a launch_browser call that is under way
AttemptStep(c) ==
    \/ EnsureProfile(c)
    \/ CreatedWake(c)
    \/ CheckStatus(c)
    \/ ClosePending(c)
    \/ Recheck(c)
    \/ Discover(c)
    \/ ConnectReuse(c)
    \/ Close252(c)
    \/ Close258(c)
    \/ RestartWake(c)
    \/ StartProfile(c)
    \/ SettleWake(c)
    \/ ConnectNew(c)
    \/ Verify(c)
    \/ StopBrowser(c)
    \/ BackoffWake(c)

LaunchStep(c) ==
    \/ \E mr \in 0..MaxRetries, pl \in Placements : LaunchCall(c, mr, pl)
    \/ AttemptStep(c)

\* launch and close calls issued one at a time: one caller, whose next call
\* starts only after the previous one returned
Next == LaunchStep(1)

Spec == Init /\ [][Next]_vars

(***************************************************************************)
(* Properties of launch_browser (Spec)                                     *)
(***************************************************************************)
\* C1: with launch calls issued one at a time, every reachable state has at
\* most one live remote browser process for the profile name.
C1_AtMostOneLive == live <= 1

\* C2: every handle launch_browser returns was connected and then passed the
\* liveness check (browser.get()) in the same attempt, on the reuse path as
\* on the start-fresh path.
C2_ReturnedHandleVerified ==
    \A c \in Callers :
        launch[c].result = "browser" =>
            launch[c].browser.connected /\ launch[c].browser.verified

\* C3: as long as every status snapshot classifies the profile running, the
\* registry lists an endpoint and the connect succeeds, no start request is
\* issued, over any number of consecutive launches.
C3_ReuseIssuesNoStart == reusable => startTotal = 0

\* the second of two consecutive launches returned a reused handle
C3_Witness ==
    /\ reusable
    /\ launches = 2
    /\ launch[1].pc = "done"
    /\ launch[1].result = "browser"

\* C4 as stated: in an attempt whose first snapshot says pending, exactly one
\* close call precedes the start call, whatever the recheck reports.
C4_ExactlyOneCloseBeforeStart ==
    \A c \in Callers :
        launch[c].first_pending /\ launch[c].att_started =>
            launch[c].start_closes = 1

\* C4 amended: in an attempt whose first snapshot says pending, the start call
\* is preceded by exactly one close call when the recheck does not report
\* running, and by two or three when it reports running and the reuse fails.
C4_CloseBeforeStart ==
    \A c \in Callers :
        launch[c].first_pending /\ launch[c].att_started =>
            IF launch[c].recheck_running
            THEN launch[c].start_closes \in {2, 3}
            ELSE launch[c].start_closes = 1

\* a start after a pending snapshot whose recheck said running: the reuse
\* failed and a second close preceded the start
C4_Witness ==
    /\ launch[1].first_pending
    /\ launch[1].att_started
    /\ launch[1].recheck_running
    /\ launch[1].start_closes = 2

\* C5: when every registry call fails, launch makes exactly max_retries
\* attempts, one profile lookup each, and then returns None.
C5_RetryBound ==
    \A c \in Callers :
        launch[c].pc \in {"done", "raised"} /\ ~launch[c].reg_ok =>
            /\ launch[c].attempts = launch[c].request.max_retries
            /\ launch[c].lookups = launch[c].request.max_retries
            /\ launch[c].pc = "done"
            /\ launch[c].result = "None"

\* a launch of more than one attempt returned with every registry call failed
C5_Witness ==
    /\ launch[1].pc = "done"
    /\ ~launch[1].reg_ok
    /\ launch[1].attempts = MaxRetries
    /\ launch[1].backoffs = MaxRetries - 1

\* C6: launch never lets an exception out: whichever step fails, on whichever
\* attempt, the call ends by returning a handle or None.
C6_NeverRaises ==
    \A c \in Callers :
        /\ launch[c].pc # "raised"
        /\ launch[c].pc = "done" => launch[c].result \in {"browser", "None"}

\* the last attempt failed in the teardown (browser.stop() raised after a
\* failed liveness check) and launch returned None
C6_Witness ==
    /\ launch[1].pc = "done"
    /\ launch[1].result = "None"
    /\ launch[1].browser.connected
    /\ ~launch[1].browser.verified
    /\ ~launch[1].browser.stopped
    /\ launch[1].attempts = MaxRetries

C8_FreshProfile ==
    \A c \in Callers :
        launch[c].pc = "done" /\ launch[c].fresh =>
            /\ launch[c].result = "browser"
            /\ launch[c].attempts = 1
            /\ launch[c].lookups = 1
            /\ launch[c].creates = 1
            /\ launch[c].starts = 1
            /\ launch[c].closes = 0
            /\ launch[c].request.persistent_position = 0
                   => launch[c].start_pos = <<0, 0>>

\* the fresh-profile launch at position 0 returned
C8_Witness ==
    /\ launch[1].pc = "done"
    /\ launch[1].fresh
    /\ launch[1].request.persistent_position = 0
    /\ launch[1].result = "browser"

\* C12: after each failed attempt that is not the last, whichever step
\* failed, launch sleeps retry_delay * attempt_number before the next attempt
\* starts at the profile lookup.
C12_BackoffEveryFailure ==
    \A c \in Callers :
        launch[c].pc = "attempt" /\ launch[c].attempt >= 1 =>
            launch[c].wait_time = retry_delay * launch[c].attempt

\* C13: when the connect succeeded and the liveness check fails, the next thing
\* the call does is stop the handle; the handle is not returned, and the call
\* goes on to the next attempt if one remains and to None otherwise.
C13_VerifyFailureTearsDown ==
    [][\A c \in Callers :
         /\ launch[c].pc = "verify" /\ launch'[c] # launch[c] =>
                \/ /\ launch'[c].pc = "done"
                   /\ launch'[c].result = "browser"
                   /\ launch'[c].browser.verified
                \/ /\ launch'[c].pc = "stop"
                   /\ launch'[c].result = "none"
         /\ launch[c].pc = "stop" /\ launch'[c] # launch[c] =>
                IF launch[c].attempt + 1 < launch[c].request.max_retries
                THEN /\ launch'[c].pc = "attempt"
                     /\ launch'[c].attempt = launch[c].attempt + 1
                     /\ launch'[c].result = "none"
                ELSE /\ launch'[c].pc = "done"
                     /\ launch'[c].result = "None"]_vars

\* the liveness check failed, the handle was stopped, the next attempt is about
\* to run
C13_Witness ==
    /\ launch[1].pc = "attempt"
    /\ launch[1].attempt >= 1
    /\ launch[1].browser.connected
    /\ ~launch[1].browser.verified
    /\ launch[1].browser.stopped

\* C14: when the profile is classified running and the registry does not list
\* an endpoint, or the connect fails, launch issues a close and then a start in
\* the same attempt.
C14_FallThroughStarts ==
    \A c \in Callers :
        /\ launch[c].reuse_failed
        /\ launch[c].pc \notin {"close_252", "close_258", "restart_sleep", "start"}
        => /\ launch[c].att_started
           /\ launch[c].start_closes >= 1

\* C23: on a pending first snapshot launch issues the close, then sleeps
\* retry_delay, then takes a second status snapshot, and the branch taken
\* after it (reuse versus start) is the one the second snapshot selects.
C23_PendingOrdering ==
    [][LET l == launch[1]
           l2 == launch'[1]
       IN  /\ l.pc = "close_pending" /\ l2.pc # l.pc
               => /\ l.first_pending
                  /\ l.att_closes = 0
                  /\ l2.closes = l.closes + 1
                  /\ \/ l2.pc = "pending_sleep" /\ l2.wait_time = retry_delay
                     \/ l2.pc \in {"backoff", "done"} /\ l2.result # "browser"
           /\ l2.pc = "pending_sleep" /\ l.pc # l2.pc => l.pc = "close_pending"
           /\ l.pc = "pending_sleep" /\ l2.pc # l.pc
               => /\ l.first_pending /\ ~l.is_running
                  /\ l2.closes = l.closes /\ l2.starts = l.starts
                  /\ \/ l2.pc \in {"backoff", "done"} /\ l2.result # "browser"
                     \/ /\ l2.pc = IF l2.recheck_running THEN "discover" ELSE "start"
                        /\ l2.is_running = l2.recheck_running
      ]_vars

\* the first snapshot said pending, not running; after the close and the
\* sleep the second said running, and the reuse branch is taken
C23_Witness ==
    /\ launch[1].pc = "discover"
    /\ launch[1].first_pending
    /\ launch[1].recheck_running
    /\ launch[1].att_closes = 1

\* C27: within one attempt a start is issued only if the first status
\* snapshot of the attempt listed the profile as neither running nor pending,
\* or a close call was issued earlier in the same attempt.
C27_StartOnlyStoppedOrClosed ==
    \A c \in Callers :
        launch[c].att_started =>
            \/ ~launch[c].first_running /\ ~launch[c].first_pending
            \/ launch[c].start_closes >= 1

\* a start issued in an attempt whose first snapshot said running, after the
\* reuse failed and one close call was made
C27_Witness ==
    /\ launch[1].pc = "settle_sleep"
    /\ launch[1].first_running
    /\ launch[1].start_closes = 1

\* C28: when launch returns None, no browser process started by a start call
\* of that launch is still alive: a start followed by a failed connect or
\* liveness check is followed by a close before launch returns.
C28_FailureLeavesNoBrowser ==
    \A c \in Callers :
        launch[c].pc = "done" /\ launch[c].result = "None" => ~launch[c].spawned

\* C29: a launch call makes at most max_retries attempts, issues at most
\* one start call and at most two close calls per attempt, and does not sleep
\* for backoff after the last attempt.
C29_BoundedTraffic ==
    \A c \in Callers :
        LET l == launch[c]
        IN  l.pc # "idle" =>
                /\ l.attempts <= l.request.max_retries
                /\ l.starts <= l.attempts
                /\ l.att_closes <= 2
                /\ l.backoffs <= l.request.max_retries - 1
                /\ l.pc = "backoff" => l.attempt < l.request.max_retries - 1

(***************************************************************************)
(* Two launch_browser calls for the same name on one event loop            *)
(***************************************************************************)
\* each caller calls launch_browser(name, max_retries=1) once
ConcurrentCall(c) ==
    /\ launch[c].pc = "idle"
    /\ LaunchCall(c, 1, <<0, NoCoord, NoCoord>>)

\* the steps of a call of one attempt: there is no backoff sleep to wake from
ConcurrentStep(c) ==
    \/ ConcurrentCall(c)
    \/ EnsureProfile(c)
    \/ CreatedWake(c)
    \/ CheckStatus(c)
    \/ ClosePending(c)
    \/ Recheck(c)
    \/ Discover(c)
    \/ ConnectReuse(c)
    \/ Close252(c)
    \/ Close258(c)
    \/ RestartWake(c)
    \/ StartProfile(c)
    \/ SettleWake(c)
    \/ ConnectNew(c)
    \/ Verify(c)
    \/ StopBrowser(c)

\* asyncio runs either coroutine whenever it is ready
NextConcurrent == \E c \in Callers : ConcurrentStep(c)

SpecConcurrent == Init /\ [][NextConcurrent]_vars

\* C15: two concurrent launch calls for the same name are not mutually
\* excluded: whenever the event loop is free, a call that has not returned can
\* take its next step whatever the other call is doing, the start included.
C15_NoMutualExclusion ==
    \A c \in Callers :
        loop = 0 /\ launch[c].pc # "done" => ENABLED ConcurrentStep(c)

\* both calls issued a start for the profile with no close call by either
\* before or between the two starts, both are suspended in the settle sleep
\* and two browsers are live
C15_Witness ==
    /\ starters = Callers
    /\ launch[1].pc = "settle_sleep" /\ launch[2].pc = "settle_sleep"
    /\ launch[1].closes = 0 /\ launch[2].closes = 0
    /\ live = 2

(***************************************************************************)
(* A relaunch over a leftover process                                      *)
(***************************************************************************)
\* from here on the registry and the connector work and the status signal
\* reflects the OS; a process of the profile is live, left by an earlier
\* launch or session
Repair ==
    /\ ~works
    /\ loop = 0
    /\ launch[1].pc \in {"idle", "done"}
    /\ live >= 1
    /\ works' = TRUE
    /\ UNCHANGED <<os, snapshot, launch, loop, exists, live, launches, startTotal,
                   reusable, starters, reg, pool>>

\* launch_browser(name) with the default arguments
RelaunchCall == LaunchCall(1, 0, <<0, NoCoord, NoCoord>>)

NextRelaunch == RelaunchCall \/ AttemptStep(1) \/ Repair

\* a coroutine that is ready is eventually run: sleeps end, awaits return
SpecRelaunch == Init /\ [][NextRelaunch]_vars /\ WF_vars(AttemptStep(1))

\* C16: a launch called while exactly one leftover process of the profile is
\* live, with a registry, a connector and a status signal that work from then
\* on, eventually returns a handle and leaves exactly one live process.
C16_RelaunchReturns ==
    (launch[1].leftover /\ launch[1].pc = "attempt" /\ launch[1].attempt = 0)
        ~> (launch[1].pc = "done" /\ launch[1].result = "browser" /\ live = 1)

\* the relaunch found the leftover process pending, closed it, started the
\* profile again and returned the verified handle
C16_Witness ==
    /\ launch[1].leftover
    /\ launch[1].pc = "done"
    /\ launch[1].result = "browser"
    /\ launch[1].closes = 1
    /\ launch[1].starts = 1
    /\ launch[1].browser.verified
    /\ live = 1

(***************************************************************************)
(* The monitor on its own: any OS state, one status check                  *)
(***************************************************************************)
InitMonitor ==
    /\ os \in OsStates
    /\ snapshot = NoResult
    /\ launch = [c \in Callers |-> IdleLaunch]
    /\ loop = 0
    /\ exists = FALSE
    /\ live = 0
    /\ launches = 0
    /\ startTotal = 0
    /\ reusable = TRUE
    /\ starters = {}
    /\ works = FALSE
    /\ reg = NoReg
    /\ pool = NoPool

\* get_profile_status / any caller of the monitor: one full status check
StatusCheck ==
    /\ snapshot = NoResult
    /\ snapshot' = check_all_profiles_status(os)
    /\ UNCHANGED <<os, launch, loop, exists, live, launches, startTotal, reusable, starters, works, reg, pool>>

NextMonitor == StatusCheck

SpecMonitor == InitMonitor /\ [][NextMonitor]_vars

(***************************************************************************)
(* Properties of the status check (SpecMonitor)                            *)
(***************************************************************************)
\* some process of the OS, of whatever executable, has a command line that
\* names the profile
SomeProcessMatches(o, profile) ==
    \E p \in Pids : o.proc[p].present /\ Matches(profile, CmdlineStr(o, p))

\* C9: the stopped, running and pending buckets a status check returns are
\* pairwise disjoint and their union is exactly the set of profile
\* directories under the root.
C9_PartitionComplete ==
    snapshot.outcome = "returned" =>
        /\ snapshot.stopped \cap snapshot.running = {}
        /\ snapshot.stopped \cap snapshot.pending = {}
        /\ snapshot.running \cap snapshot.pending = {}
        /\ snapshot.stopped \cup snapshot.running \cup snapshot.pending = os.dirs

\* a check that filled all three buckets
C9_Witness ==
    /\ snapshot.outcome = "returned"
    /\ snapshot.stopped # {}
    /\ snapshot.running # {}
    /\ snapshot.pending # {}

\* C10: a profile directory that no process command line matches is in the
\* stopped bucket of every returned status check, whatever the foreground
\* window and the CPU samples of the other processes are.
C10_NoProcessStopped ==
    snapshot.outcome = "returned" =>
        \A profile \in os.dirs :
            ~SomeProcessMatches(os, profile) => profile \in snapshot.stopped

\* an unmatched profile reported stopped next to a profile that is running
\* with the foreground window and CPU activity
C10_Witness ==
    /\ snapshot.outcome = "returned"
    /\ \E profile \in os.dirs :
           ~SomeProcessMatches(os, profile) /\ profile \in snapshot.stopped
    /\ snapshot.running # {}
    /\ _get_active_window_pids(os) # {}
    /\ \E p \in Pids : os.proc[p].cpu_next > cpu_threshold

\* the CPU signal of a matched process whose sample was read: the difference
\* of its two readings, or either reading, is above the threshold
CpuSignal(info) ==
    /\ info.cpu_next # Gone
    /\ info.cpu_percent # NoCpu
    /\ \/ info.cpu_next - info.cpu_percent > cpu_threshold
       \/ info.cpu_percent - info.cpu_next > cpu_threshold
       \/ info.cpu_percent > cpu_threshold
       \/ info.cpu_next > cpu_threshold

C25_UnreadableProcessNoAbort ==
    snapshot # NoResult =>
        /\ snapshot.outcome = "returned"
        /\ snapshot.stopped \cup snapshot.running \cup snapshot.pending = os.dirs
        /\ \A profile \in os.dirs :
               LET procs == ProfileProcesses(os, profile)
               IN  /\ procs # <<>>
                   /\ \A i \in 1..Len(procs) :
                          /\ os.proc[procs[i]].cpu_next = Gone
                          /\ procs[i] \notin _get_active_window_pids(os)
                   => profile \in snapshot.pending

(***************************************************************************)
(* The status check with its worker threads in every order                 *)
(***************************************************************************)
\* the processes of the machine while the pool runs
PoolProcs ==
    { [present |-> TRUE, name |-> ChromeExe, cmdline |-> cl,
       cpu_percent |-> cp[1], cpu_next |-> cp[2]] :
          cl \in {CmdA, CmdAb},
          cp \in { <<0, 0>>, <<0, cpu_threshold + 1>>, <<NoCpu, 0>>,
                   <<cpu_threshold + 1, Gone>> } }
    \cup {Absent}

PoolOs ==
    [root_exists : {TRUE}, dirs : {{ProfA, ProfAb, ProfB}}, proc : [Pids -> PoolProcs],
     fg : {NoWindow, [pid |-> 1, visible |-> TRUE, titled |-> TRUE]}]
    \cup {NoRoot}

InitPool ==
    /\ os \in PoolOs
    /\ snapshot = NoResult
    /\ launch = [c \in Callers |-> IdleLaunch]
    /\ loop = 0
    /\ exists = FALSE
    /\ live = 0
    /\ launches = 0
    /\ startTotal = 0
    /\ reusable = TRUE
    /\ starters = {}
    /\ works = FALSE
    /\ reg = NoReg
    /\ pool = NoPool

\* check_all_profiles_status up to the fan-out, profile_monitor.py:109-158:
\* an early return, or one future submitted per profile
Submit ==
    /\ pool.phase = "none"
    /\ LET order == ProfileOrder(os)
       IN  IF ~os.root_exists
           THEN /\ snapshot' = ProfileStatusResult({}, {}, {})
                /\ pool' = [pool EXCEPT !.phase = "done"]
           ELSE IF os.dirs = {} \/ Len(_get_chrome_processes(os)) = 0
           THEN /\ snapshot' = ProfileStatusResult(os.dirs, {}, {})
                /\ pool' = [pool EXCEPT !.phase = "done"]
           ELSE /\ pool' = [phase |-> "running",
                            active_pids |-> _get_active_window_pids(os),
                            worker |-> [k \in 1..Len(order) |->
                                          Worker(order[k],
                                                 ProfileProcesses(os, order[k]))],
                            collected |-> 0,
                            finished |-> <<>>]
                /\ UNCHANGED snapshot
    /\ UNCHANGED <<os, launch, loop, exists, live, launches, startTotal, reusable,
                   starters, works, reg>>

\* the pool thread of future k runs one step of its call
WorkerRun(k) ==
    /\ pool.phase \in {"running", "shutdown"}
    /\ k \in 1..Len(pool.worker)
    /\ pool.worker[k].status = "busy"
    /\ LET w == worker_step(pool.worker, k, os, pool.active_pids)
       IN  pool' = [pool EXCEPT !.worker[k] = w,
                                !.finished = IF w.status # "busy"
                                             THEN Append(@, k) ELSE @]
    /\ UNCHANGED <<os, snapshot, launch, loop, exists, live, launches, startTotal,
                   reusable, starters, works, reg>>

\* future.result() of the next future in submission order returns or
\* re-raises, profile_monitor.py:160-162
Collect ==
    /\ pool.phase = "running"
    /\ pool.collected < Len(pool.worker)
    /\ pool.worker[pool.collected + 1].status # "busy"
    /\ pool' = IF pool.worker[pool.collected + 1].status = "TypeError"
               THEN [pool EXCEPT !.phase = "shutdown"]
               ELSE [pool EXCEPT !.collected = @ + 1]
    /\ UNCHANGED <<os, snapshot, launch, loop, exists, live, launches, startTotal,
                   reusable, starters, works, reg>>

\* the with block is left once every worker has ended; the results are
\* sorted into the three buckets, or the exception goes on to the caller
Finish ==
    /\ \A k \in 1..Len(pool.worker) : pool.worker[k].status # "busy"
    /\ \/ /\ pool.phase = "running"
          /\ pool.collected = Len(pool.worker)
          /\ LET result == [k \in 1..Len(pool.worker) |-> status_info(pool.worker[k])]
                 bucket(b) == { pool.worker[k].profile : k \in
                                  { j \in 1..Len(pool.worker) : Bucket(result[j]) = b } }
             IN  snapshot' = ProfileStatusResult(bucket("stopped"), bucket("running"),
                                                 bucket("pending"))
       \/ /\ pool.phase = "shutdown"
          /\ snapshot' = Raised
    /\ pool' = [pool EXCEPT !.phase = "done"]
    /\ UNCHANGED <<os, launch, loop, exists, live, launches, startTotal, reusable,
                   starters, works, reg>>

\* the profile names get_profile_status is asked about: three directory
\* names and a name no directory has
QueriedNames == {ProfA, ProfAb, ProfB, <<"z">>}

\* GPMService.get_profile_status once its status check has ended: the
\* exception goes on to the caller, or get_status reads the result
GetProfileStatus(c) ==
    /\ snapshot # NoResult
    /\ launch[c].pc = "idle"
    /\ \E profile_name \in QueriedNames :
         launch' = [launch EXCEPT
                      ![c].pc = "queried",
                      ![c].profile_name = profile_name,
                      ![c].status = IF snapshot.outcome = "raised" THEN "raised"
                                    ELSE get_status(snapshot, profile_name)]
    /\ UNCHANGED <<os, snapshot, loop, exists, live, launches, startTotal, reusable,
                   starters, works, reg, pool>>

\* the profile_path a registry record of the launched profile may carry:
\* the name of its directory under the root, or the path of that directory
RecordPaths == {LaunchedPath, PathJoin(profiles_dir, LaunchedPath)}

\* _handle_profile_status up to its first branch, once its status check has
\* ended, for a record whose profile_path is one of RecordPaths
HandleProfileStatus(c) ==
    /\ snapshot # NoResult
    /\ launch[c].pc = "idle"
    /\ \E path \in RecordPaths :
         launch' = [launch EXCEPT ![c] =
                      first_check([IdleLaunch EXCEPT
                                     !.request = BrowserLaunchRequest(0, 0, NoCoord, NoCoord),
                                     !.profile_path = path],
                                  snapshot)]
    /\ UNCHANGED <<os, snapshot, loop, exists, live, launches, startTotal, reusable,
                   starters, works, reg, pool>>

NextPool ==
    \/ Submit
    \/ \E k \in 1..Len(pool.worker) : WorkerRun(k)
    \/ Collect
    \/ Finish
    \/ GetProfileStatus(1)
    \/ HandleProfileStatus(1)

SpecPool == InitPool /\ [][NextPool]_vars

\* C21: when the profiles root directory does not exist, the status check
\* returns without raising, no profile is running or pending, and
\* get_profile_status of the queried profile is STOPPED.
C21_MissingRootAllStopped ==
    ~os.root_exists /\ launch[1].pc = "queried" =>
        /\ snapshot.outcome = "returned"
        /\ snapshot.running = {}
        /\ snapshot.pending = {}
        /\ launch[1].status = "stopped"

\* C22: whenever the snapshot places the launched profile's directory in the
\* running bucket (resp. the pending bucket), launch takes the running branch
\* (resp. the pending branch): the record's profile_path, the key launch
\* queries the snapshot with, identifies the entry stored for that directory.
C22_OwnBucketConsulted ==
    /\ launch[1].profile_path \in RecordPaths
    /\ snapshot.outcome = "returned"
    => /\ LaunchedPath \in snapshot.running => launch[1].pc = "discover"
       /\ LaunchedPath \in snapshot.pending => launch[1].pc = "close_pending"

\* C30: the partition a status check returns is the same for every
\* scheduling and completion order of the worker threads: each worker's
\* classification is the one its own matched processes and the foreground
\* pids computed before the fan-out determine, and the check's outcome is
\* the function of the OS state that a one-by-one evaluation computes.
C30_OrderIndependent ==
    /\ \A k \in 1..Len(pool.worker) :
           LET w == pool.worker[k]
           IN  w.status # "busy" =>
                   w.status = _check_profile_status(os, w.profile,
                                  ProfileProcesses(os, w.profile),
                                  _get_active_window_pids(os)).status
    /\ pool.phase = "done" => snapshot = check_all_profiles_status(os)

\* the workers ended in the reverse of their submission order and the
\* check returned a partition with a running and a pending profile
C30_Witness ==
    /\ pool.phase = "done"
    /\ pool.finished = <<3, 2, 1>>
    /\ snapshot.outcome = "returned"
    /\ snapshot.running # {}
    /\ snapshot.pending # {}

(***************************************************************************)
(* The window geometry on its own: two requests, each placed once          *)
(***************************************************************************)
\* rows of the grid the position indices cover
MaxRows == 3

\* the explicit coordinates a request may carry: none, x alone, y alone, both
ExplicitXY == { <<NoCoord, NoCoord>>, <<7, NoCoord>>, <<NoCoord, 9>>, <<7, 9>> }

GeometryRequests ==
    { [IdleLaunch EXCEPT !.request = BrowserLaunchRequest(0, i, xy[1], xy[2])] :
        i \in 0..(max_browsers_per_line * MaxRows - 1), xy \in ExplicitXY }

InitGeometry ==
    /\ os = NoRoot
    /\ snapshot = NoResult
    /\ launch \in [Callers -> GeometryRequests]
    /\ loop = 0
    /\ exists = FALSE
    /\ live = 0
    /\ launches = 0
    /\ startTotal = 0
    /\ reusable = TRUE
    /\ starters = {}
    /\ works = FALSE
    /\ reg = NoReg
    /\ pool = NoPool

\* the position computation of _start_new_profile (gpm_service.py:279-288)
\* applied to caller c's request
Place(c) ==
    /\ launch[c].pc = "idle"
    /\ launch' = [launch EXCEPT ![c].pc = "placed",
                                ![c].start_pos = WindowPos(launch[c].request)]
    /\ UNCHANGED <<os, snapshot, loop, exists, live, launches, startTotal, reusable,
                   starters, works, reg, pool>>

NextGeometry == \E c \in Callers : Place(c)

SpecGeometry == InitGeometry /\ [][NextGeometry]_vars

\* two windows of the request's size placed at p and q share some area
Overlap(p, q, width, height) ==
    LET dx == IF p[1] >= q[1] THEN p[1] - q[1] ELSE q[1] - p[1]
        dy == IF p[2] >= q[2] THEN p[2] - q[2] ELSE q[2] - p[2]
    IN  dx < width /\ dy < height

\* C11: with the configured window size and no explicit x/y, the positions of
\* two different position indices of 0..max_browsers_per_line*k-1 are distinct,
\* the windows placed at them do not overlap, and each position is
\* ((index mod max_browsers_per_line)*width, (index div max_browsers_per_line)*height).
C11_GeometryTiling ==
    \A c \in Callers, d \in Callers :
        LET rc == launch[c].request
            rd == launch[d].request
        IN  /\ launch[c].pc = "placed" /\ launch[d].pc = "placed"
            /\ rc.window_x = NoCoord /\ rc.window_y = NoCoord
            /\ rd.window_x = NoCoord /\ rd.window_y = NoCoord
            /\ rc.persistent_position # rd.persistent_position
            => /\ launch[c].start_pos # launch[d].start_pos
               /\ ~Overlap(launch[c].start_pos, launch[d].start_pos,
                           rc.window_width, rc.window_height)
               /\ launch[c].start_pos =
                    << (rc.persistent_position % max_browsers_per_line) * rc.window_width,
                       (rc.persistent_position \div max_browsers_per_line) * rc.window_height >>

\* indices 1 and 5, same column of two consecutive rows, both placed
C11_Witness ==
    /\ launch[1].pc = "placed" /\ launch[2].pc = "placed"
    /\ launch[1].request.window_x = NoCoord /\ launch[1].request.window_y = NoCoord
    /\ launch[2].request.window_x = NoCoord /\ launch[2].request.window_y = NoCoord
    /\ launch[1].request.persistent_position = 1
    /\ launch[2].request.persistent_position = max_browsers_per_line + 1
    /\ launch[2].start_pos = <<browser_width, browser_height>>

\* C26: a request that carries an explicit window_x or window_y is placed
\* at that explicit value whatever its position index; the grid position is
\* used only for a request that carries no explicit coordinate.
C26_ExplicitPriority ==
    \A c \in Callers :
        LET r == launch[c].request
            pos == launch[c].start_pos
        IN  launch[c].pc = "placed" =>
                /\ r.window_x # NoCoord => pos[1] = r.window_x
                /\ r.window_y # NoCoord => pos[2] = r.window_y
                /\ r.window_x = NoCoord /\ r.window_y = NoCoord
                   => pos = << (r.persistent_position % max_browsers_per_line)
                                  * r.window_width,
                               (r.persistent_position \div max_browsers_per_line)
                                  * r.window_height >>

(***************************************************************************)
(* The registry client on its own: any two responses, one call             *)
(***************************************************************************)
InitRegistry ==
    /\ os = NoRoot
    /\ snapshot = NoResult
    /\ launch = [c \in Callers |-> IdleLaunch]
    /\ loop = 0
    /\ exists = FALSE
    /\ live = 0
    /\ launches = 0
    /\ startTotal = 0
    /\ reusable = TRUE
    /\ starters = {}
    /\ works = FALSE
    /\ reg \in { [NoReg EXCEPT !.phase = "input", !.list_resp = lr, !.resp = r] :
                   lr \in Responses, r \in Responses }
    /\ pool = NoPool

\* one call of the client: op names the method, out is what it did
Called(op, out) ==
    /\ reg.phase = "input"
    /\ reg' = [reg EXCEPT !.phase = "called", !.op = op, !.out = out]
    /\ UNCHANGED <<os, snapshot, launch, loop, exists, live, launches, startTotal,
                   reusable, starters, works, pool>>

MakeRequest == Called("_make_request", _make_request(reg.resp))

CreateProfile == Called("create_profile", create_profile(reg.resp))

GetProfiles == Called("get_profiles", get_profiles(reg.list_resp))

CloseProfile == Called("close_profile", close_profile(reg.resp))

CloseProfileByName ==
    Called("close_profile_by_name", close_by_name(AskedName, reg.list_resp, reg.resp))

NextRegistry ==
    \/ MakeRequest
    \/ CreateProfile
    \/ GetProfiles
    \/ CloseProfile
    \/ CloseProfileByName

SpecRegistry == InitRegistry /\ [][NextRegistry]_vars

\* the request was answered with a 2xx status and a JSON object
AnsweredObject(resp) ==
    resp.net = "answered" /\ resp.status < 400 /\ resp.body.json = "object"

\* the request succeeded: a 2xx answer whose envelope carries data that is not null
Succeeded(resp) ==
    AnsweredObject(resp) /\ resp.body.has_data /\ resp.body.data # "null"

\* C17: close by name never raises; it returns False when the listing request
\* fails, when no profile has the name or when the close request fails, and
\* True only when the close request succeeded.
C17_CloseByNameNeverRaises ==
    reg.op = "close_profile_by_name" =>
        /\ reg.out.exc = "none"
        /\ reg.out.kind = "bool"
        /\ reg.out.flag => Succeeded(reg.list_resp) /\ Succeeded(reg.resp)

\* C18: close_profile(profile_id) raises nothing, returns False for every
\* failure of the close request (timeout, non-2xx status, malformed or empty
\* payload) and True when the request succeeds.
C18_CloseBestEffort ==
    reg.op = "close_profile" =>
        /\ reg.out.exc = "none"
        /\ reg.out.kind = "bool"
        /\ reg.out.flag <=> Succeeded(reg.resp)

\* C19: a 2xx answer whose envelope carries data = null makes _make_request
\* raise GPMApiException, and create_profile returns no record for it.
C19_NullDataIsError ==
    /\ reg.phase = "called"
    /\ AnsweredObject(reg.resp) /\ reg.resp.body.has_data
    /\ reg.resp.body.data = "null"
    => /\ reg.op = "_make_request" => reg.out.exc = "GPMApiException"
       /\ reg.op = "create_profile" => reg.out.exc = "GPMApiException"

\* create_profile was called and answered 200 with data = null
C19_Witness ==
    /\ reg.op = "create_profile"
    /\ reg.resp.net = "answered" /\ reg.resp.status = 200
    /\ reg.resp.body.json = "object" /\ reg.resp.body.has_data
    /\ reg.resp.body.data = "null"
    /\ reg.out.exc = "GPMApiException"

\* C20: a 2xx answer whose JSON envelope has no data key makes _make_request
\* raise GPMApiException instead of returning a value.
C20_MissingDataIsError ==
    /\ reg.op = "_make_request"
    /\ AnsweredObject(reg.resp) /\ ~reg.resp.body.has_data
    => reg.out.exc = "GPMApiException"

====
